---- MODULE Spec2Model ----
(***************************************************************************)
(* Memberberries BerryManager (src/berry_manager.py).                      *)
(*                                                                         *)
(* The specifications of this module:                                     *)
(*   SpecIO    several CLI processes loading and saving the Index document *)
(*             on one storage root, step by step, with crashes and I/O     *)
(*             failures (_load_index, _save_index);                        *)
(*   SpecLoad  _load_index / _recover_from_backup run on every on-disk     *)
(*             content of the target and of its two backups;               *)
(*   SpecOps   the typed memory store of one process: add, search,         *)
(*             archive, unarchive, refine, pin, unpin, gravity.            *)
(*   SpecSearch   solutions added and searched across restarts;            *)
(*   SpecGravity  references, feedback, decay and the ranked reads;        *)
(*   SpecCluster  task clusters, attach and auto_cluster_memory;           *)
(*   SpecPin      auto_pin_if_needed, pin and unpin.                       *)
(***************************************************************************)
EXTENDS Integers, Sequences, FiniteSets, TLC

VARIABLES
    fs,          \* path -> file content (the storage root)
    pc,          \* process -> position in its run
    mem,         \* process -> its in-memory Index (self.index), abstracted
    opsDone,     \* process -> mutating operations it has started
    failed,      \* process -> a step of its current save has failed
    written,     \* documents some save has serialised completely
    lastRename,  \* the process whose rename onto the target completed last
    loadOut,     \* process -> how its _load_index call ended
    index,       \* self.index of the process of SpecOps
    saved,       \* the Index that process wrote with its last _save_index
    now,         \* the wall clock, in ticks
    hseed,       \* the salt of str hashes the process drew at start-up
    ret,         \* the last operation called, its arguments and its result
    calls,       \* operations that process has called
    budget       \* operations it calls at most in this run

ioVars == <<fs, pc, mem, opsDone, failed, written, lastRename, loadOut>>

opsVars == <<index, saved, now, hseed, ret, calls, budget>>

vars == <<ioVars, opsVars>>

-----------------------------------------------------------------------------
(* Bounds *)

NumProcs == 2
MaxOps == 2
MaxItem == 2
MaxRecs == 2
MaxTime == 1

\* operations one process calls in a run
MaxCalls == 3

\* task clusters created
MaxTasks == 2

\* references counted for one memory
MaxRefs == 1

\* days the clock moves on in one tick
DaysPerTick == 7

\* greatest denominator of a mass that is decayed once more
MaxDen == 100

Procs == 1..NumProcs
Items == 1..MaxItem

RECURSIVE SumOver(_, _)
SumOver(f, S) ==
    IF S = {} THEN 0
    ELSE LET x == CHOOSE y \in S : TRUE IN f[x] + SumOver(f, S \ {x})

-----------------------------------------------------------------------------
(* Files.  A file's content is abstracted to its JSON reading:             *)
(*   absent   no file at the path                                          *)
(*   partial  a strict prefix of a document being written (never parses)   *)
(*   garbage  bytes that do not parse as JSON                              *)
(*   array    a document that parses to a JSON value that is not an object *)
(*   object   a document that parses to an object; data is its top level   *)

NoData == [k \in {} |-> {}]

Absent == [st |-> "absent", data |-> NoData]

PartialDoc == [st |-> "partial", data |-> NoData]

Garbage == [st |-> "garbage", data |-> NoData]

ArrayDoc == [st |-> "array", data |-> NoData]

Obj(d) == [st |-> "object", data |-> d]

Exists(c) == c.st # "absent"

\* json.load succeeds (no JSONDecodeError)
JsonParses(c) == c.st \in {"object", "array"}

\* the top-level keys of default_index, abstracted to two list-valued kinds
DefaultKeys == {"solutions", "pinned"}

\* a key member.py adds to the Index that default_index does not hold
ExtraKeys == {"active_task"}

AllKeys == DefaultKeys \cup ExtraKeys

DefaultIndex == [k \in DefaultKeys |-> {}]

TmpPath(p) == IF p = 1 THEN "tmp1" ELSE IF p = 2 THEN "tmp2" ELSE "tmp3"

FixedPaths == {"index", "bak", "bak2", "corrupted"}

Paths == FixedPaths \cup {TmpPath(p) : p \in Procs}

-----------------------------------------------------------------------------
(* _load_index and _recover_from_backup *)

\* for key in default_index: if key not in loaded: loaded[key] = default_index[key]
MergeDefaults(loaded) ==
    [k \in (DOMAIN loaded) \cup DefaultKeys |->
        IF k \in DOMAIN loaded THEN loaded[k] ELSE DefaultIndex[k]]

\* self.index_path.rename(corrupted_path), inside try/except: pass
Quarantine(f) ==
    IF Exists(f["index"])
    THEN [f EXCEPT !["corrupted"] = f["index"], !["index"] = Absent]
    ELSE f

\* the merge loop applied to what json.load returned: a non-object value
\* makes "loaded[key] = ..." raise TypeError, which nothing catches
MergeOutcome(c, f) ==
    IF c.st = "object"
    THEN [out |-> "ok", index |-> MergeDefaults(c.data), fs |-> f]
    ELSE [out |-> "TypeError", index |-> NoData, fs |-> f]

\* the backup the loop of _recover_from_backup stops at, "none" if it ends
FirstParsingBackup(f) ==
    IF Exists(f["bak"]) /\ JsonParses(f["bak"]) THEN "bak"
    ELSE IF Exists(f["bak2"]) /\ JsonParses(f["bak2"]) THEN "bak2"
    ELSE "none"

RecoverFromBackup(f) ==
    LET b == FirstParsingBackup(f) IN
    IF b # "none"
    THEN MergeOutcome(f[b], Quarantine(f))
    ELSE [out |-> "ok", index |-> DefaultIndex, fs |-> Quarantine(f)]

LoadIndex(f) ==
    IF Exists(f["index"])
    THEN IF JsonParses(f["index"])
         THEN MergeOutcome(f["index"], f)
         ELSE RecoverFromBackup(f)
    ELSE [out |-> "ok", index |-> DefaultIndex, fs |-> f]

\* BerryManager.__init__: self.index = self._load_index()
Load(p) ==
    /\ pc[p] = "start"
    /\ LET r == LoadIndex(fs) IN
        /\ fs' = r.fs
        /\ loadOut' = [loadOut EXCEPT ![p] = r.out]
        /\ mem' = [mem EXCEPT ![p] = r.index]
        /\ pc' = [pc EXCEPT ![p] = IF r.out = "ok" THEN "idle" ELSE "raised"]
    /\ UNCHANGED <<opsDone, failed, written, lastRename, opsVars>>

-----------------------------------------------------------------------------
(* A mutating operation of a process: the in-memory update of add_solution *)
(* and its like, then _save_index step by step.                            *)

\* self.index["solutions"].append(...); _sanitize_index leaves the abstract
\* items as they are.  The save starts with the exists() test of line 238.
Mutate(p, x) ==
    /\ pc[p] = "idle"
    /\ SumOver(opsDone, Procs) < MaxOps
    /\ mem' = [mem EXCEPT ![p] =
                 [@ EXCEPT !["solutions"] = @ \cup {x}]]
    /\ opsDone' = [opsDone EXCEPT ![p] = @ + 1]
    /\ failed' = [failed EXCEPT ![p] = FALSE]
    /\ pc' = [pc EXCEPT ![p] =
                IF Exists(fs["index"]) THEN "rotate" ELSE "mkstemp"]
    /\ UNCHANGED <<fs, written, lastRename, loadOut, opsVars>>

\* lines 241-247: drop .bak2, promote .bak to .bak2 (errors swallowed)
RotatedBackups(f) ==
    IF Exists(f["bak"])
    THEN [f EXCEPT !["bak2"] = f["bak"], !["bak"] = Absent]
    ELSE f

Rotate(p) ==
    /\ pc[p] = "rotate"
    /\ fs' = RotatedBackups(fs)
    /\ pc' = [pc EXCEPT ![p] = "copy"]
    /\ UNCHANGED <<mem, opsDone, failed, written, lastRename, loadOut, opsVars>>

\* lines 241-247 when unlink or rename raises: "except: pass", and the save
\* goes on; .bak2 is gone if it was the rename that raised
RotateFails(p) ==
    /\ pc[p] = "rotate"
    /\ Exists(fs["bak"])
    /\ \E dropped \in BOOLEAN :
          fs' = IF dropped THEN [fs EXCEPT !["bak2"] = Absent] ELSE fs
    /\ pc' = [pc EXCEPT ![p] = "copy"]
    /\ UNCHANGED <<mem, opsDone, failed, written, lastRename, loadOut, opsVars>>

\* lines 248-252: shutil.copy2(self.index_path, backup_path), errors swallowed
CopiedBackup(f) ==
    IF Exists(f["index"]) THEN [f EXCEPT !["bak"] = f["index"]] ELSE f

CopyBackup(p) ==
    /\ pc[p] = "copy"
    /\ fs' = CopiedBackup(fs)
    /\ pc' = [pc EXCEPT ![p] = "mkstemp"]
    /\ UNCHANGED <<mem, opsDone, failed, written, lastRename, loadOut, opsVars>>

\* lines 248-252 when copy2 raises: "except: pass", and the save goes on;
\* .bak is as it was or holds the part that was copied
CopyFails(p) ==
    /\ pc[p] = "copy"
    /\ \E torn \in BOOLEAN :
          fs' = IF torn /\ Exists(fs["index"])
                THEN [fs EXCEPT !["bak"] = PartialDoc] ELSE fs
    /\ pc' = [pc EXCEPT ![p] = "mkstemp"]
    /\ UNCHANGED <<mem, opsDone, failed, written, lastRename, loadOut, opsVars>>

\* a save that writes the document in place, onto the target itself
DumpPath_InPlace(p) == "index"

\* the path json.dump writes to: the file tempfile.mkstemp made in base_path
DumpPath(p) == TmpPath(p)

\* lines 255-260: mkstemp creates an empty file
Mkstemp(p) ==
    /\ pc[p] = "mkstemp"
    /\ fs' = [fs EXCEPT ![DumpPath(p)] = PartialDoc]
    /\ pc' = [pc EXCEPT ![p] = "dump"]
    /\ UNCHANGED <<mem, opsDone, failed, written, lastRename, loadOut, opsVars>>

\* mkstemp raises (outside the try): the error reaches the caller as it is
MkstempFails(p) ==
    /\ pc[p] = "mkstemp"
    /\ failed' = [failed EXCEPT ![p] = TRUE]
    /\ pc' = [pc EXCEPT ![p] = "raised"]
    /\ UNCHANGED <<fs, mem, opsDone, written, lastRename, loadOut, opsVars>>

\* lines 264-276: flock, json.dump, flush, fsync complete
Dump(p) ==
    /\ pc[p] = "dump"
    /\ fs' = [fs EXCEPT ![DumpPath(p)] = Obj(mem[p])]
    /\ written' = written \cup {mem[p]}
    /\ pc' = [pc EXCEPT ![p] = "validate"]
    /\ UNCHANGED <<mem, opsDone, failed, lastRename, loadOut, opsVars>>

\* the write raises part-way (disk full, I/O error): the except clause runs
DumpFails(p) ==
    /\ pc[p] = "dump"
    /\ failed' = [failed EXCEPT ![p] = TRUE]
    /\ pc' = [pc EXCEPT ![p] = "cleanup"]
    /\ UNCHANGED <<fs, mem, opsDone, written, lastRename, loadOut, opsVars>>

\* the write returns but the bytes on disk are not the document
DumpTorn(p) ==
    /\ pc[p] = "dump"
    /\ fs' = [fs EXCEPT ![DumpPath(p)] = Garbage]
    /\ pc' = [pc EXCEPT ![p] = "validate"]
    /\ UNCHANGED <<mem, opsDone, failed, written, lastRename, loadOut, opsVars>>

\* a save that renames without having parsed the temp file
ValidationPasses_Skipped(c) == TRUE

\* lines 279-280: with open(temp_path) as f: json.load(f) does not raise
ValidationPasses(c) == JsonParses(c)

Validate(p) ==
    /\ pc[p] = "validate"
    /\ IF ValidationPasses(fs[DumpPath(p)])
       THEN /\ pc' = [pc EXCEPT ![p] = "rename"]
            /\ UNCHANGED failed
       ELSE /\ pc' = [pc EXCEPT ![p] = "cleanup"]
            /\ failed' = [failed EXCEPT ![p] = TRUE]
    /\ UNCHANGED <<fs, mem, opsDone, written, lastRename, loadOut, opsVars>>

\* a save that merges the target's records into the document it installs
Renamed_Merging(f, p) ==
    [f EXCEPT ![DumpPath(p)] = Absent,
              !["index"] =
                 IF f["index"].st = "object" /\ f[DumpPath(p)].st = "object"
                 THEN Obj([k \in DOMAIN f[DumpPath(p)].data |->
                            f[DumpPath(p)].data[k] \cup
                              (IF k \in DOMAIN f["index"].data
                               THEN f["index"].data[k] ELSE {})])
                 ELSE f[DumpPath(p)]]

\* line 283: temp_path.rename(self.index_path), atomic on POSIX
Renamed(f, p) ==
    [f EXCEPT ![DumpPath(p)] = Absent, !["index"] = f[DumpPath(p)]]

Rename(p) ==
    /\ pc[p] = "rename"
    /\ fs' = Renamed(fs, p)
    /\ lastRename' = p
    /\ pc' = [pc EXCEPT ![p] = "idle"]
    /\ UNCHANGED <<mem, opsDone, failed, written, loadOut, opsVars>>

\* the rename raises: the except clause runs
RenameFails(p) ==
    /\ pc[p] = "rename"
    /\ failed' = [failed EXCEPT ![p] = TRUE]
    /\ pc' = [pc EXCEPT ![p] = "cleanup"]
    /\ UNCHANGED <<fs, mem, opsDone, written, lastRename, loadOut, opsVars>>

\* lines 286-292: temp_path.unlink(); raise RuntimeError
Cleanup(p) ==
    /\ pc[p] = "cleanup"
    /\ fs' = [fs EXCEPT ![DumpPath(p)] = Absent]
    /\ pc' = [pc EXCEPT ![p] = "raised"]
    /\ UNCHANGED <<mem, opsDone, failed, written, lastRename, loadOut, opsVars>>

SavePositions ==
    {"rotate", "copy", "mkstemp", "dump", "validate", "rename", "cleanup"}

\* the process is killed inside _save_index; what it wrote so far stays
Crash(p) ==
    /\ pc[p] \in SavePositions
    /\ pc' = [pc EXCEPT ![p] = "crashed"]
    /\ UNCHANGED <<fs, mem, opsDone, failed, written, lastRename, loadOut, opsVars>>

-----------------------------------------------------------------------------
(* SpecIO: processes on one storage root *)

\* SpecIO and SpecLoad leave the typed store of SpecOps alone
OpsIdle ==
    /\ index = <<>>
    /\ saved = <<>>
    /\ now = 0
    /\ hseed = 0
    /\ ret = <<>>
    /\ calls = 0
    /\ budget = 0

\* the storage root before the first process starts: no Index yet, or the
\* Index an earlier run saved
InitIndexDoc == Obj(DefaultIndex)

InitIO ==
    /\ \E c \in {Absent, InitIndexDoc} :
          /\ fs = [q \in Paths |-> IF q = "index" THEN c ELSE Absent]
          /\ written = IF Exists(c) THEN {c.data} ELSE {}
    /\ pc = [p \in Procs |-> "start"]
    /\ mem = [p \in Procs |-> NoData]
    /\ opsDone = [p \in Procs |-> 0]
    /\ failed = [p \in Procs |-> FALSE]
    /\ lastRename = 0
    /\ loadOut = [p \in Procs |-> "none"]
    /\ OpsIdle

NextIO ==
    \E p \in Procs :
        \/ Load(p)
        \/ \E x \in Items : Mutate(p, x)
        \/ Rotate(p)
        \/ RotateFails(p)
        \/ CopyBackup(p)
        \/ CopyFails(p)
        \/ Mkstemp(p)
        \/ MkstempFails(p)
        \/ Dump(p)
        \/ DumpFails(p)
        \/ DumpTorn(p)
        \/ Validate(p)
        \/ Rename(p)
        \/ RenameFails(p)
        \/ Cleanup(p)
        \/ Crash(p)

SpecIO == InitIO /\ [][NextIO]_vars

-----------------------------------------------------------------------------
(* SpecLoad: _load_index on every content of the target and its backups,   *)
(* by one process and then by the next                                     *)

LoadVals == {{}, {1}}

LoadObjects ==
    UNION {[K -> LoadVals] : K \in SUBSET AllKeys}

LoadContents == {Absent, Garbage, ArrayDoc} \cup {Obj(d) : d \in LoadObjects}

InitLoad ==
    /\ \E ci \in LoadContents, cb \in LoadContents, cb2 \in LoadContents :
          fs = [q \in Paths |->
                  IF q = "index" THEN ci
                  ELSE IF q = "bak" THEN cb
                  ELSE IF q = "bak2" THEN cb2
                  ELSE Absent]
    /\ written = {}
    /\ pc = [p \in Procs |-> "start"]
    /\ mem = [p \in Procs |-> NoData]
    /\ opsDone = [p \in Procs |-> 0]
    /\ failed = [p \in Procs |-> FALSE]
    /\ lastRename = 0
    /\ loadOut = [p \in Procs |-> "none"]
    /\ OpsIdle

\* the processes run one after the other
NextLoad ==
    \E p \in Procs :
        /\ \A q \in Procs : q < p => pc[q] # "start"
        /\ Load(p)

SpecLoad == InitLoad /\ [][NextLoad]_vars

-----------------------------------------------------------------------------
(* Text.  A string is a sequence of characters over a small alphabet:      *)
(* letters, the space, and "^" for a control character (\x01).             *)

Space == " "

Ctl == "^"

\* the length _sanitize_index caps a string at
MaxStrLen == 10000

\* '...[truncated]'
TruncatedMark ==
    <<".", ".", ".", "[", "t", "r", "u", "n", "c", "a", "t", "e", "d", "]">>

\* re.sub(r'[\x00-\x08\x0b\x0c\x0e-\x1f\x7f]', '', s), then the length cap
SanitizeString(s) ==
    LET t == SelectSeq(s, LAMBDA c : c # Ctl) IN
    IF Len(t) > MaxStrLen THEN SubSeq(t, 1, MaxStrLen) \o TruncatedMark ELSE t

LowerChar(c) == IF c = "A" THEN "a" ELSE IF c = "B" THEN "b" ELSE c

\* str.lower()
Lower(s) == [i \in 1..Len(s) |-> LowerChar(s[i])]

\* str.split(): the maximal runs of non-space characters, in order
RECURSIVE SplitFrom(_, _, _)
SplitFrom(s, i, cur) ==
    IF i > Len(s)
    THEN IF cur = <<>> THEN <<>> ELSE <<cur>>
    ELSE IF s[i] = Space
         THEN IF cur = <<>>
              THEN SplitFrom(s, i + 1, <<>>)
              ELSE <<cur>> \o SplitFrom(s, i + 1, <<>>)
         ELSE SplitFrom(s, i + 1, Append(cur, s[i]))

Split(s) == SplitFrom(s, 1, <<>>)

SeqRange(q) == {q[i] : i \in 1..Len(q)}

\* str.startswith
StartsWith(s, prefix) ==
    /\ Len(prefix) <= Len(s)
    /\ SubSeq(s, 1, Len(prefix)) = prefix

-----------------------------------------------------------------------------
(* _simple_embedding and _cosine_similarity *)

\* the length of the embedding vector
EmbedDim == 128

CharCode(c) ==
    IF c = "a" THEN 1 ELSE IF c = "b" THEN 2 ELSE IF c = Ctl THEN 3 ELSE 4

RECURSIVE WordCode(_)
WordCode(w) ==
    IF w = <<>> THEN 0 ELSE CharCode(Head(w)) + 5 * WordCode(Tail(w))

\* hash(word): Python salts str hashes per process, so the function is one
\* the process drew at start-up; seed 0 keeps the words of the model apart,
\* seed 1 sends words of equal length to one bucket
StrHash(seed, w) ==
    IF seed = 0 THEN WordCode(w) ELSE EmbedDim * WordCode(w) + Len(w)

Bucket(seed, w) == StrHash(seed, w) % EmbedDim

\* the vector before normalisation, as bucket -> count over the buckets hit;
\* the stored vector is this one divided by its norm, and cosine similarity
\* does not depend on that positive factor
SimpleEmbedding(seed, text) ==
    LET vocab == SeqRange(Split(Lower(text)))
        hit == {Bucket(seed, w) : w \in vocab}
    IN [b \in hit |-> Cardinality({w \in vocab : Bucket(seed, w) = b})]

RECURSIVE SumSet(_, _)
SumSet(f, S) ==
    IF S = {} THEN 0
    ELSE LET x == CHOOSE y \in S : TRUE IN f[x] + SumSet(f, S \ {x})

Dot(u, v) ==
    LET common == (DOMAIN u) \cap (DOMAIN v) IN
    SumSet([b \in common |-> u[b] * v[b]], common)

NormSq(u) == Dot(u, u)

\* _cosine_similarity as the exact fraction num/den of its square (the value
\* is never negative: all counts are); 0/1 when a norm is zero
CosineSq(u, v) ==
    IF NormSq(u) = 0 \/ NormSq(v) = 0
    THEN [num |-> 0, den |-> 1]
    ELSE [num |-> Dot(u, v) * Dot(u, v), den |-> NormSq(u) * NormSq(v)]

\* x < y for two such fractions
FracLess(x, y) == x.num * y.den < y.num * x.den

FracEq(x, y) == x.num * y.den = y.num * x.den

-----------------------------------------------------------------------------
(* The typed memory store of one process.  A record is a Python dict: a     *)
(* function from its keys to their values.  Tags and code snippets are left *)
(* out: no operation below reads them.                                      *)

Has(r, k) == k \in DOMAIN r

\* dict.get(k, dflt)
Get(r, k, dflt) == IF k \in DOMAIN r THEN r[k] ELSE dflt

\* r[k] = v
Put(r, k, v) == [x \in (DOMAIN r) \cup {k} |-> IF x = k THEN v ELSE r[x]]

\* r.pop(k, None)
Drop(r, k) == [x \in (DOMAIN r) \ {k} |-> r[x]]

\* hashlib.md5(f"{text}{timestamp}".encode()).hexdigest()[:12]: one digest per
\* (text, timestamp), written as the pair itself; its prefixes are the
\* prefixes an id can be looked up by
MakeId(text, ts) == <<text, ts>>

\* the keys whose values are free text (the ids and timestamps are strings
\* with no control character in them)
TextKeys ==
    {"problem", "solution", "error_message", "resolution", "context",
     "pattern", "reason", "alternative", "convention_type", "example",
     "strategy", "framework", "service_name", "endpoint", "notes",
     "category", "content", "name", "version_constraint", "env_type",
     "config", "description"}

SanitizeDict(r) ==
    [k \in DOMAIN r |-> IF k \in TextKeys THEN SanitizeString(r[k]) ELSE r[k]]

\* the kinds kept as lists of records
ListKinds ==
    {"solutions", "errors", "antipatterns", "preferences", "git_conventions",
     "testing", "api_notes", "pinned", "task_clusters", "memory_gravity"}

\* the kinds kept as dicts keyed by name
MapKinds == {"dependencies", "environment"}

\* _sanitize_index: every string value of the Index, recursively; dict keys
\* are kept as they are
SanitizeIndex(ix) ==
    [k \in DOMAIN ix |->
        IF k \in ListKinds
        THEN [i \in 1..Len(ix[k]) |-> SanitizeDict(ix[k][i])]
        ELSE [n \in DOMAIN ix[k] |-> SanitizeDict(ix[k][n])]]

NoRecords == [n \in {} |-> <<>>]

\* default_index of _load_index; task_clusters and memory_gravity are dicts
\* whose iteration order is their insertion order, kept here as lists of
\* entries with a "key"
EmptyIndex ==
    [solutions |-> <<>>, errors |-> <<>>, antipatterns |-> <<>>,
     preferences |-> <<>>, git_conventions |-> <<>>, testing |-> <<>>,
     api_notes |-> <<>>, pinned |-> <<>>,
     dependencies |-> NoRecords, environment |-> NoRecords,
     task_clusters |-> <<>>, memory_gravity |-> <<>>]

RecordKinds ==
    {"solutions", "errors", "antipatterns", "preferences", "git_conventions",
     "testing", "api_notes", "pinned"}

NumRecords(ix) ==
    SumSet([k \in RecordKinds |-> Len(ix[k])], RecordKinds)
      + Cardinality(DOMAIN ix["dependencies"])
      + Cardinality(DOMAIN ix["environment"])

\* inputs
TextA == <<"a">>

TextB == <<"b">>

TextAB == <<"a", " ", "b">>

TextCtl == <<"b", "^">>

Texts == {TextA, TextAB, TextCtl}

SecondTexts == {TextB}

Names == {TextA, TextCtl}

Sp == <<Space>>

Ret(op, arg, k, out, list) ==
    [op |-> op, arg |-> arg, k |-> k, out |-> out, list |-> list]

\* the end of every mutating operation: self._save_index(), which sanitizes
\* self.index in place before it writes
SaveIndex(ix) ==
    /\ index' = SanitizeIndex(ix)
    /\ saved' = index'

CanAdd == NumRecords(index) < MaxRecs

\* one more operation is called
Called ==
    /\ calls < budget
    /\ calls' = calls + 1
    /\ budget' = budget

Appended(kind, rec) == [index EXCEPT ![kind] = Append(@, rec)]

AddSolution(problem, solution) ==
    /\ Called
    /\ CanAdd
    /\ LET rec == [id |-> MakeId(problem, now),
                   problem |-> problem,
                   solution |-> solution,
                   timestamp |-> now,
                   embedding |->
                       SimpleEmbedding(hseed, problem \o Sp \o solution)]
       IN SaveIndex(Appended("solutions", rec))
    /\ ret' = Ret("add_solution", <<>>, 0, "ok", <<>>)
    /\ UNCHANGED <<now, hseed, ioVars>>

AddError(error_message, resolution) ==
    /\ Called
    /\ CanAdd
    /\ LET rec == [id |-> MakeId(error_message, now),
                   error_message |-> error_message,
                   resolution |-> resolution,
                   context |-> <<>>,
                   timestamp |-> now,
                   embedding |->
                       SimpleEmbedding(hseed,
                                       error_message \o Sp \o resolution)]
       IN SaveIndex(Appended("errors", rec))
    /\ ret' = Ret("add_error", <<>>, 0, "ok", <<>>)
    /\ UNCHANGED <<now, hseed, ioVars>>

AddAntipattern(pattern, reason) ==
    /\ Called
    /\ CanAdd
    /\ LET alternative == TextB
           rec == [id |-> MakeId(pattern, now),
                   pattern |-> pattern,
                   reason |-> reason,
                   alternative |-> alternative,
                   timestamp |-> now,
                   embedding |->
                       SimpleEmbedding(hseed,
                           pattern \o Sp \o reason \o Sp \o alternative)]
       IN SaveIndex(Appended("antipatterns", rec))
    /\ ret' = Ret("add_antipattern", <<>>, 0, "ok", <<>>)
    /\ UNCHANGED <<now, hseed, ioVars>>

AddGitConvention(convention_type, pattern) ==
    /\ Called
    /\ CanAdd
    /\ LET example == TextB
           rec == [id |-> MakeId(convention_type \o pattern, now),
                   convention_type |-> convention_type,
                   pattern |-> pattern,
                   example |-> example,
                   timestamp |-> now,
                   embedding |->
                       SimpleEmbedding(hseed,
                           convention_type \o Sp \o pattern \o Sp \o example)]
       IN SaveIndex(Appended("git_conventions", rec))
    /\ ret' = Ret("add_git_convention", <<>>, 0, "ok", <<>>)
    /\ UNCHANGED <<now, hseed, ioVars>>

AddTestingPattern(strategy, pattern) ==
    /\ Called
    /\ CanAdd
    /\ LET framework == TextB
           rec == [id |-> MakeId(strategy \o pattern, now),
                   strategy |-> strategy,
                   framework |-> framework,
                   pattern |-> pattern,
                   example |-> <<>>,
                   timestamp |-> now,
                   embedding |->
                       SimpleEmbedding(hseed,
                           strategy \o Sp \o framework \o Sp \o pattern)]
       IN SaveIndex(Appended("testing", rec))
    /\ ret' = Ret("add_testing_pattern", <<>>, 0, "ok", <<>>)
    /\ UNCHANGED <<now, hseed, ioVars>>

AddApiNote(service_name, notes) ==
    /\ Called
    /\ CanAdd
    /\ LET endpoint == <<>>
           rec == [id |-> MakeId(service_name \o endpoint, now),
                   service_name |-> service_name,
                   endpoint |-> endpoint,
                   notes |-> notes,
                   timestamp |-> now,
                   embedding |->
                       SimpleEmbedding(hseed,
                           service_name \o Sp \o endpoint \o Sp \o notes)]
       IN SaveIndex(Appended("api_notes", rec))
    /\ ret' = Ret("add_api_note", <<>>, 0, "ok", <<>>)
    /\ UNCHANGED <<now, hseed, ioVars>>

AddPreference(category, content) ==
    /\ Called
    /\ CanAdd
    /\ LET rec == [category |-> category,
                   content |-> content,
                   timestamp |-> now,
                   embedding |-> SimpleEmbedding(hseed, content)]
       IN SaveIndex(Appended("preferences", rec))
    /\ ret' = Ret("add_preference", <<>>, 0, "ok", <<>>)
    /\ UNCHANGED <<now, hseed, ioVars>>

\* self.index["dependencies"][name] = dependency_data
AddDependency(name, notes) ==
    /\ Called
    /\ name \in DOMAIN index["dependencies"] \/ CanAdd
    /\ LET rec == [name |-> name,
                   version_constraint |-> <<>>,
                   notes |-> notes,
                   timestamp |-> now]
       IN SaveIndex([index EXCEPT !["dependencies"] = Put(@, name, rec)])
    /\ ret' = Ret("add_dependency", <<>>, 0, "ok", <<>>)
    /\ UNCHANGED <<now, hseed, ioVars>>

\* self.index["environment"][env_type] = environment_data
AddEnvironment(env_type, config) ==
    /\ Called
    /\ env_type \in DOMAIN index["environment"] \/ CanAdd
    /\ LET rec == [env_type |-> env_type,
                   config |-> config,
                   notes |-> <<>>,
                   timestamp |-> now]
       IN SaveIndex([index EXCEPT !["environment"] = Put(@, env_type, rec)])
    /\ ret' = Ret("add_environment", <<>>, 0, "ok", <<>>)
    /\ UNCHANGED <<now, hseed, ioVars>>

AddPinnedMemory(name, content) ==
    /\ Called
    /\ CanAdd
    /\ LET rec == [id |-> MakeId(name, now),
                   name |-> name,
                   content |-> content,
                   category |-> <<"g">>,
                   sensitive |-> FALSE,
                   timestamp |-> now,
                   pinned |-> TRUE]
       IN SaveIndex(Appended("pinned", rec))
    /\ ret' = Ret("add_pinned_memory", <<>>, 0, "ok", <<>>)
    /\ UNCHANGED <<now, hseed, ioVars>>

\* the wall clock moves on between two operations
Tick ==
    /\ now < MaxTime
    /\ now' = now + 1
    /\ UNCHANGED <<index, saved, hseed, ret, calls, budget, ioVars>>

-----------------------------------------------------------------------------
(* Masses are Python floats; the model keeps them as exact fractions in     *)
(* lowest terms (rounding is not modelled).                                 *)

RECURSIVE Gcd(_, _)
Gcd(a, b) == IF b = 0 THEN a ELSE Gcd(b, a % b)

Abs(n) == IF n < 0 THEN 0 - n ELSE n

Frac(n, d) ==
    LET g == Gcd(Abs(n), Abs(d))
        sg == IF d < 0 THEN 0 - 1 ELSE 1
    IN [num |-> sg * (n \div g), den |-> sg * (d \div g)]

FMul(x, y) == Frac(x.num * y.num, x.den * y.den)

FAdd(x, y) == Frac(x.num * y.den + y.num * x.den, x.den * y.den)

FLess(x, y) == x.num * y.den < y.num * x.den

\* max(x, y) as Python computes it: x unless y is greater
FMax(x, y) == IF FLess(x, y) THEN y ELSE x

One == Frac(1, 1)

Half == Frac(1, 2)

Two == Frac(2, 1)

\* the floor 0.1 of a mass
MassFloor == Frac(1, 10)

-----------------------------------------------------------------------------
(* archive_memory, unarchive_memory, refine_memory, unpin_memory *)

\* what an operation looking a record up by id (or id prefix) may be given
NoSuchId == <<<<"z">>>>

IdsOf(ix) ==
    {ix[k][i]["id"] : <<k, i>> \in
        {<<k, i>> \in RecordKinds \X (1..MaxRecs + 1) :
            i <= Len(ix[k]) /\ Has(ix[k][i], "id")}}

IdArgs(ix) ==
    {NoSuchId, <<>>}
      \cup UNION {{SubSeq(id, 1, n) : n \in 1..Len(id)} : id \in IdsOf(ix)}

\* mem.get('id', '').startswith(memory_id), and mem.get('archived') where
\* the caller asks for it
Matches(rec, memory_id, needArchived) ==
    /\ StartsWith(Get(rec, "id", <<>>), memory_id)
    /\ needArchived => Get(rec, "archived", FALSE)

FirstMatch(list, memory_id, needArchived) ==
    LET hits == {j \in 1..Len(list) : Matches(list[j], memory_id, needArchived)}
    IN IF hits = {} THEN 0 ELSE CHOOSE j \in hits : \A h \in hits : j <= h

\* "for mem_type in memory_types: for mem in self.index.get(mem_type, [])":
\* the first record that matches, kind by kind.  A kind the Index keeps as a
\* dict yields its keys, and mem.get on a key (a str) raises AttributeError.
RECURSIVE Scan(_, _, _, _, _)
Scan(ix, kinds, n, memory_id, needArchived) ==
    IF n > Len(kinds)
    THEN [found |-> "miss", kind |-> "", pos |-> 0]
    ELSE LET k == kinds[n] IN
         IF k \notin DOMAIN ix
         THEN Scan(ix, kinds, n + 1, memory_id, needArchived)
         ELSE IF k \in MapKinds
         THEN IF DOMAIN ix[k] # {}
              THEN [found |-> "AttributeError", kind |-> k, pos |-> 0]
              ELSE Scan(ix, kinds, n + 1, memory_id, needArchived)
         ELSE LET j == FirstMatch(ix[k], memory_id, needArchived) IN
              IF j # 0
              THEN [found |-> "hit", kind |-> k, pos |-> j]
              ELSE Scan(ix, kinds, n + 1, memory_id, needArchived)

\* the lookup with the pinned list in it
ArchiveKinds_WithPinned ==
    <<"pinned", "solutions", "errors", "antipatterns", "preferences",
      "git_conventions", "dependencies", "testing", "env_configs",
      "api_notes">>

\* memory_types of archive_memory and of unarchive_memory
ArchiveKinds ==
    <<"solutions", "errors", "antipatterns", "preferences",
      "git_conventions", "dependencies", "testing", "env_configs",
      "api_notes">>

ArchivedRecord(memory, ts) ==
    LET a == Put(Put(memory, "archived", TRUE), "archived_at", ts)
        current_mass == Get(memory, "gravitational_mass", One)
    IN Put(a, "gravitational_mass", FMax(MassFloor, FMul(current_mass, Half)))

ArchiveMemory(memory_id) ==
    /\ Called
    /\ LET s == Scan(index, ArchiveKinds, 1, memory_id, FALSE) IN
        IF s.found = "hit"
        THEN /\ SaveIndex([index EXCEPT ![s.kind][s.pos] =
                              ArchivedRecord(@, now)])
             /\ ret' = Ret("archive_memory", memory_id, 0, "true", <<>>)
        ELSE /\ UNCHANGED <<index, saved>>
             /\ ret' = Ret("archive_memory", memory_id, 0,
                           IF s.found = "miss" THEN "false" ELSE s.found,
                           <<>>)
    /\ UNCHANGED <<now, hseed, ioVars>>

UnarchivedRecord(memory) ==
    LET a == Drop(Put(memory, "archived", FALSE), "archived_at") IN
    Put(a, "gravitational_mass",
        FMul(Get(memory, "gravitational_mass", Half), Two))

UnarchiveMemory(memory_id) ==
    /\ Called
    /\ LET s == Scan(index, ArchiveKinds, 1, memory_id, TRUE) IN
        IF s.found = "hit"
        THEN /\ SaveIndex([index EXCEPT ![s.kind][s.pos] =
                              UnarchivedRecord(@)])
             /\ ret' = Ret("unarchive_memory", memory_id, 0, "true", <<>>)
        ELSE /\ UNCHANGED <<index, saved>>
             /\ ret' = Ret("unarchive_memory", memory_id, 0,
                           IF s.found = "miss" THEN "false" ELSE s.found,
                           <<>>)
    /\ UNCHANGED <<now, hseed, ioVars>>

\* memory_types of refine_memory: (kind, content field), in this order
RefineKinds == <<"solutions", "solutions", "errors", "errors", "antipatterns">>

RefineFields ==
    <<"problem", "solution", "error_message", "resolution", "pattern">>

RECURSIVE RefineScan(_, _, _)
RefineScan(ix, n, memory_id) ==
    IF n > Len(RefineKinds)
    THEN [found |-> "miss", kind |-> "", pos |-> 0, field |-> ""]
    ELSE LET j == FirstMatch(ix[RefineKinds[n]], memory_id, FALSE) IN
         IF j # 0
         THEN [found |-> "hit", kind |-> RefineKinds[n], pos |-> j,
               field |-> RefineFields[n]]
         ELSE RefineScan(ix, n + 1, memory_id)

RefinedRecord(memory, content_field, new_content, ts, seed) ==
    LET a == IF Has(memory, content_field)
             THEN Put(memory, content_field, new_content) ELSE memory
        b == Put(Put(a, "refined", TRUE), "refined_at", ts)
        full_content ==
            Get(b, "problem", <<>>) \o Get(b, "solution", <<>>)
              \o Get(b, "error_message", <<>>) \o Get(b, "resolution", <<>>)
    IN Put(b, "embedding", SimpleEmbedding(seed, full_content))

RefineMemory(memory_id, new_content) ==
    /\ Called
    /\ LET s == RefineScan(index, 1, memory_id) IN
        IF s.found = "hit"
        THEN /\ SaveIndex([index EXCEPT ![s.kind][s.pos] =
                   RefinedRecord(@, s.field, new_content, now, hseed)])
             /\ ret' = Ret("refine_memory", memory_id, 0, "true",
                           <<new_content>>)
        ELSE /\ UNCHANGED <<index, saved>>
             /\ ret' = Ret("refine_memory", memory_id, 0, "false",
                           <<new_content>>)
    /\ UNCHANGED <<now, hseed, ioVars>>

\* unpin by id prefix, as archive_memory looks records up
Unpinned_ByPrefix(pinned, pin_id) ==
    SelectSeq(pinned, LAMBDA p : ~StartsWith(Get(p, "id", <<>>), pin_id))

\* [p for p in pinned if p.get("id") != pin_id]
Unpinned(pinned, pin_id) ==
    SelectSeq(pinned, LAMBDA p : Get(p, "id", <<>>) # pin_id)

UnpinMemory(pin_id) ==
    /\ Called
    /\ LET kept == Unpinned(index["pinned"], pin_id) IN
        IF Len(kept) < Len(index["pinned"])
        THEN /\ SaveIndex([index EXCEPT !["pinned"] = kept])
             /\ ret' = Ret("unpin_memory", pin_id, 0, "true", <<>>)
        ELSE /\ UNCHANGED <<index, saved>>
             /\ ret' = Ret("unpin_memory", pin_id, 0, "false", <<>>)
    /\ UNCHANGED <<now, hseed, ioVars>>

-----------------------------------------------------------------------------
(* detect_auto_pin and auto_pin_if_needed.  Of AUTO_PIN_PATTERNS the model   *)
(* keeps one URI pattern, 'redis://[^\s]+' (category 'database'), with the   *)
(* letter "a" standing for the scheme 'redis://': the pattern matches an "a" *)
(* followed by one or more characters that are not white space, control      *)
(* characters included.                                                      *)

\* re.search(pattern, text, re.IGNORECASE).group(0): the leftmost match,
\* as long as it can be; <<>> when there is none
UriMatch(text) ==
    LET starts == {i \in 1..(Len(text) - 1) :
                      LowerChar(text[i]) = "a" /\ text[i + 1] # Space}
    IN IF starts = {} THEN <<>>
       ELSE LET i == CHOOSE x \in starts : \A y \in starts : x <= y
                ends == {e \in (i + 1)..Len(text) :
                            \A x \in (i + 1)..e : text[x] # Space}
                j == CHOOSE e \in ends : \A y \in ends : y <= e
            IN SubSeq(text, i, j)

\* 'database'
UriCategory == <<"d">>

\* sub in s, for two strings
Contains(s, sub) ==
    \E i \in 0..(Len(s) - Len(sub)) : SubSeq(s, i + 1, i + Len(sub)) = sub

\* the test of auto_pin_if_needed for "already pinned"
AlreadyPinned(pinned, category, matched) ==
    \E i \in 1..Len(pinned) :
        /\ Get(pinned[i], "category", <<>>) = category
        /\ Contains(Get(pinned[i], "content", <<>>), matched)

AutoPinIfNeeded(text, name) ==
    /\ Called
    /\ LET matched == UriMatch(text) IN
        IF matched = <<>>
        THEN /\ UNCHANGED <<index, saved>>
             /\ ret' = Ret("auto_pin_if_needed", text, 0, "none", <<>>)
        ELSE IF AlreadyPinned(index["pinned"], UriCategory, matched)
        THEN /\ UNCHANGED <<index, saved>>
             /\ ret' = Ret("auto_pin_if_needed", text, 0, "none", <<>>)
        ELSE /\ CanAdd
             /\ SaveIndex(Appended("pinned",
                    [id |-> MakeId(name, now),
                     name |-> name,
                     content |-> text,
                     category |-> UriCategory,
                     sensitive |-> FALSE,
                     timestamp |-> now,
                     pinned |-> TRUE]))
             /\ ret' = Ret("auto_pin_if_needed", text, 0, "pinned", <<>>)
    /\ UNCHANGED <<now, hseed, ioVars>>

-----------------------------------------------------------------------------
(* search_<kind> *)

Min(a, b) == IF a < b THEN a ELSE b

Max(a, b) == IF a < b THEN b ELSE a

\* list.sort(reverse=True, key=...): the positions of keys in the order the
\* sort leaves them, greatest key first; the sort is stable, so equal keys
\* keep their order.  The keys are fractions.
StableDesc(keys) ==
    LET n == Len(keys)
        Before(j, i) ==
            \/ FracLess(keys[i], keys[j])
            \/ FracEq(keys[i], keys[j]) /\ j < i
        Place(i) == 1 + Cardinality({j \in 1..n : Before(j, i)})
    IN [q \in 1..n |-> CHOOSE i \in 1..n : Place(i) = q]

\* s[:k]
SliceTo(s, k) ==
    IF k >= 0 THEN SubSeq(s, 1, Min(k, Len(s)))
    ELSE SubSeq(s, 1, Max(0, Len(s) + k))

Positions(list) == [i \in 1..Len(list) |-> i]

\* the positions, in the list of the kind, of the records a search returns
Search(ix, seed, kind, query, top_k, skipArchived) ==
    LET query_embedding == SimpleEmbedding(seed, query)
        scored ==
            SelectSeq(Positions(ix[kind]),
                      LAMBDA i : ~(skipArchived
                                   /\ Get(ix[kind][i], "archived", FALSE)))
        sims == [c \in 1..Len(scored) |->
                    CosineSq(query_embedding, ix[kind][scored[c]]["embedding"])]
        order == StableDesc(sims)
    IN SliceTo([q \in 1..Len(scored) |-> scored[order[q]]], top_k)

SearchSolutions(query, top_k) ==
    /\ Called
    /\ ret' = Ret("search_solutions", query, top_k, "ok",
                  Search(index, hseed, "solutions", query, top_k, TRUE))
    /\ UNCHANGED <<index, saved, now, hseed, ioVars>>

SearchErrors(query, top_k) ==
    /\ Called
    /\ ret' = Ret("search_errors", query, top_k, "ok",
                  Search(index, hseed, "errors", query, top_k, FALSE))
    /\ UNCHANGED <<index, saved, now, hseed, ioVars>>

SearchAntipatterns(query, top_k) ==
    /\ Called
    /\ ret' = Ret("search_antipatterns", query, top_k, "ok",
                  Search(index, hseed, "antipatterns", query, top_k, FALSE))
    /\ UNCHANGED <<index, saved, now, hseed, ioVars>>

SearchGitConventions(query, top_k) ==
    /\ Called
    /\ ret' = Ret("search_git_conventions", query, top_k, "ok",
                  Search(index, hseed, "git_conventions", query, top_k, FALSE))
    /\ UNCHANGED <<index, saved, now, hseed, ioVars>>

SearchTestingPatterns(query, top_k) ==
    /\ Called
    /\ ret' = Ret("search_testing_patterns", query, top_k, "ok",
                  Search(index, hseed, "testing", query, top_k, FALSE))
    /\ UNCHANGED <<index, saved, now, hseed, ioVars>>

SearchApiNotes(query, top_k) ==
    /\ Called
    /\ ret' = Ret("search_api_notes", query, top_k, "ok",
                  Search(index, hseed, "api_notes", query, top_k, FALSE))
    /\ UNCHANGED <<index, saved, now, hseed, ioVars>>

\* the list each search operation ranks
SearchedKind ==
    [search_solutions |-> "solutions", search_errors |-> "errors",
     search_antipatterns |-> "antipatterns",
     search_git_conventions |-> "git_conventions",
     search_testing_patterns |-> "testing",
     search_api_notes |-> "api_notes"]

-----------------------------------------------------------------------------
(* Task clusters and memory gravity *)

\* the position of the entry of a dict (kept as a list of entries) under a
\* key, 0 when the key is not in the dict
KeyPos(entries, key) ==
    LET hits == {i \in 1..Len(entries) : entries[i].key = key}
    IN IF hits = {} THEN 0 ELSE CHOOSE i \in hits : TRUE

Keys(entries) == {entries[i].key : i \in 1..Len(entries)}

\* parent_task=None
NoParent == <<>>

CreateTaskCluster(name, description, parent_task) ==
    /\ Called
    /\ \/ Len(index["task_clusters"]) < MaxTasks
       \/ MakeId(name, now) \in Keys(index["task_clusters"])
    /\ LET task_id == MakeId(name, now)
           cluster == [key |-> task_id, name |-> name,
                       description |-> description, parent |-> parent_task,
                       mass |-> 1, memories |-> <<>>,
                       created |-> now, last_active |-> now]
           t == KeyPos(index["task_clusters"], task_id)
       IN SaveIndex([index EXCEPT !["task_clusters"] =
                        IF t = 0 THEN Append(@, cluster)
                        ELSE [@ EXCEPT ![t] = cluster]])
    /\ ret' = Ret("create_task_cluster", <<>>, 0, "ok", <<>>)
    /\ UNCHANGED <<now, hseed, ioVars>>

NewGravity(memory_id, ts) ==
    [key |-> memory_id, mass |-> One, references |-> 0, tasks |-> <<>>,
     last_accessed |-> ts]

\* attach_memory_to_task once the task is known to exist
Attached(ix, memory_id, task_id, ts) ==
    LET t == KeyPos(ix["task_clusters"], task_id)
        c == ix["task_clusters"][t]
        c2 == IF memory_id \notin SeqRange(c.memories)
              THEN [c EXCEPT !.memories = Append(@, memory_id),
                             !.mass = @ + 1,
                             !.last_active = ts]
              ELSE c
        g0 == ix["memory_gravity"]
        g1 == IF KeyPos(g0, memory_id) = 0
              THEN Append(g0, NewGravity(memory_id, ts)) ELSE g0
        m == KeyPos(g1, memory_id)
        g2 == IF task_id \notin SeqRange(g1[m].tasks)
              THEN [g1 EXCEPT ![m].tasks = Append(@, task_id),
                              ![m].mass = FAdd(@, One)]
              ELSE g1
    IN [ix EXCEPT !["task_clusters"][t] = c2, !["memory_gravity"] = g2]

AttachMemoryToTask(memory_id, task_id) ==
    /\ Called
    /\ IF KeyPos(index["task_clusters"], task_id) = 0
       THEN UNCHANGED <<index, saved>>
       ELSE SaveIndex(Attached(index, memory_id, task_id, now))
    /\ ret' = Ret("attach_memory_to_task", <<memory_id, task_id>>, 0, "ok",
                  <<>>)
    /\ UNCHANGED <<now, hseed, ioVars>>

ReferenceMemory(memory_id) ==
    /\ Called
    /\ LET g0 == index["memory_gravity"]
           g1 == IF KeyPos(g0, memory_id) = 0
                 THEN Append(g0, NewGravity(memory_id, now)) ELSE g0
           m == KeyPos(g1, memory_id)
       IN /\ g1[m].references < MaxRefs
          /\ SaveIndex([index EXCEPT !["memory_gravity"] =
                [g1 EXCEPT ![m].references = @ + 1,
                           ![m].mass = FAdd(@, Half),
                           ![m].last_accessed = now]])
    /\ ret' = Ret("reference_memory", memory_id, 0, "ok", <<>>)
    /\ UNCHANGED <<now, hseed, ioVars>>

\* the kinds _find_memory_by_id looks through, in this order
FindKinds == <<"solutions", "errors", "antipatterns", "pinned">>

\* _find_memory_by_id: where the first record with exactly this id is
RECURSIVE FindFrom(_, _, _)
FindFrom(ix, n, memory_id) ==
    IF n > Len(FindKinds)
    THEN [kind |-> "", pos |-> 0]
    ELSE LET list == ix[FindKinds[n]]
             hits == {j \in 1..Len(list) :
                         Get(list[j], "id", <<>>) = memory_id}
         IN IF hits # {}
            THEN [kind |-> FindKinds[n],
                  pos |-> CHOOSE j \in hits : \A h \in hits : j <= h]
            ELSE FindFrom(ix, n + 1, memory_id)

FindMemoryById(ix, memory_id) == FindFrom(ix, 1, memory_id)

\* gravity.get(mid, {}).get("mass", 1)
MassOf(ix, mid) ==
    LET m == KeyPos(ix["memory_gravity"], mid) IN
    IF m = 0 THEN One ELSE ix["memory_gravity"][m].mass

\* memory["_gravity_mass"] = mass, for every id of the set that is found
RECURSIVE Annotated(_, _)
Annotated(ix, ids) ==
    IF ids = {} THEN ix
    ELSE LET mid == CHOOSE x \in ids : TRUE
             f == FindMemoryById(ix, mid)
             rest == Annotated(ix, ids \ {mid})
         IN IF f.pos = 0 THEN rest
            ELSE [rest EXCEPT ![f.kind][f.pos] =
                     Put(@, "_gravity_mass", MassOf(ix, mid))]

\* the ids get_task_memories gathers: the task's own and its subtasks'
TaskMemoryIds(ix, task_id) ==
    LET cl == ix["task_clusters"] IN
    UNION {SeqRange(cl[i].memories) :
              i \in {j \in 1..Len(cl) :
                        cl[j].key = task_id \/ cl[j].parent = task_id}}

\* The ids are gathered in a Python set, whose order of iteration is not
\* fixed; the stable sort by mass leaves equal masses in that order.
GetTaskMemories(task_id) ==
    /\ Called
    /\ IF KeyPos(index["task_clusters"], task_id) = 0
       THEN /\ UNCHANGED index
            /\ ret' = Ret("get_task_memories", task_id, 0, "ok", <<>>)
       ELSE LET ids == TaskMemoryIds(index, task_id)
                found == {mid \in ids : FindMemoryById(index, mid).pos # 0}
                n == Cardinality(found)
            IN /\ index' = Annotated(index, ids)
               /\ \E out \in [1..n -> found] :
                    /\ \A i, j \in 1..n : i # j => out[i] # out[j]
                    /\ \A i \in 1..n - 1 :
                         ~FLess(MassOf(index, out[i]),
                                MassOf(index, out[i + 1]))
                    /\ ret' = Ret("get_task_memories", task_id, 0, "ok", out)
    /\ UNCHANGED <<saved, now, hseed, ioVars>>

\* (now - last_dt).days
DaysInactive(ts, last_accessed) == (ts - last_accessed) * DaysPerTick

\* stale only when more days than decay_days have passed
Stale_Strict(g, ts, decay_days) ==
    DaysInactive(ts, g.last_accessed) > decay_days

Stale(g, ts, decay_days) == DaysInactive(ts, g.last_accessed) >= decay_days

\* the decay without the floor
Decayed_NoFloor(gravity, ts, decay_days, decay_factor) ==
    [m \in 1..Len(gravity) |->
        IF Stale(gravity[m], ts, decay_days)
        THEN [gravity[m] EXCEPT !.mass = FMul(@, decay_factor)]
        ELSE gravity[m]]

\* the gravity map after the loop of apply_staleness_decay
Decayed(gravity, ts, decay_days, decay_factor) ==
    [m \in 1..Len(gravity) |->
        IF Stale(gravity[m], ts, decay_days)
        THEN [gravity[m] EXCEPT
                 !.mass = FMax(MassFloor, FMul(@, decay_factor))]
        ELSE gravity[m]]

\* masses are kept from running through ever finer fractions
DecayRoom(gravity, ts, decay_days) ==
    \A m \in 1..Len(gravity) :
        Stale(gravity[m], ts, decay_days) => gravity[m].mass.den <= MaxDen

ApplyStalenessDecay(decay_days, decay_factor) ==
    /\ Called
    /\ DecayRoom(index["memory_gravity"], now, decay_days)
    /\ LET gravity == index["memory_gravity"]
           updated == \E m \in 1..Len(gravity) :
                          Stale(gravity[m], now, decay_days)
       IN IF updated
          THEN SaveIndex([index EXCEPT !["memory_gravity"] =
                   Decayed(gravity, now, decay_days, decay_factor)])
          ELSE UNCHANGED <<index, saved>>
    /\ ret' = Ret("apply_staleness_decay", decay_factor, decay_days, "ok",
                  <<>>)
    /\ UNCHANGED <<now, hseed, ioVars>>

\* the defaults of apply_staleness_decay
DefaultDecayDays == 7

DefaultDecayFactor == Frac(9, 10)

\* the loop of get_high_gravity_memories over the sorted gravity entries:
\* the Index with the annotations written, and the ids returned
RECURSIVE HighScan(_, _, _, _, _)
HighScan(ix, sorted_gravity, n, memories, top_k) ==
    IF n > Len(sorted_gravity)
    THEN [index |-> ix, memories |-> memories]
    ELSE LET gdata == sorted_gravity[n]
             f == FindMemoryById(ix, gdata.key)
             take == f.pos # 0
                       /\ ~Get(ix[f.kind][f.pos], "archived", FALSE)
             ix2 == IF take
                    THEN [ix EXCEPT ![f.kind][f.pos] =
                             Put(Put(@, "_gravity_mass", gdata.mass),
                                 "_references", gdata.references)]
                    ELSE ix
             memories2 == IF take THEN Append(memories, gdata.key)
                          ELSE memories
         IN IF Len(memories2) >= top_k
            THEN [index |-> ix2, memories |-> memories2]
            ELSE HighScan(ix2, sorted_gravity, n + 1, memories2, top_k)

GetHighGravityMemories(top_k) ==
    /\ Called
    /\ DecayRoom(index["memory_gravity"], now, DefaultDecayDays)
    /\ LET g0 == index["memory_gravity"]
           updated == \E m \in 1..Len(g0) :
                          Stale(g0[m], now, DefaultDecayDays)
           ix1 == IF updated
                  THEN SanitizeIndex([index EXCEPT !["memory_gravity"] =
                           Decayed(g0, now, DefaultDecayDays,
                                   DefaultDecayFactor)])
                  ELSE index
           gravity == ix1["memory_gravity"]
           order == StableDesc([m \in 1..Len(gravity) |-> gravity[m].mass])
           sorted_gravity == [q \in 1..Len(gravity) |-> gravity[order[q]]]
           r == HighScan(ix1, sorted_gravity, 1, <<>>, top_k)
       IN /\ saved' = IF updated THEN ix1 ELSE saved
          /\ index' = r.index
          /\ ret' = Ret("get_high_gravity_memories", <<>>, top_k, "ok",
                        r.memories)
    /\ UNCHANGED <<now, hseed, ioVars>>

\* str.replace("-", " ")
ReplaceDash(t) == [i \in 1..Len(t) |-> IF t[i] = "-" THEN Space ELSE t[i]]

Words(t) == SeqRange(Split(Lower(t)))

\* a scoring in which a tag found in the cluster's name weighs 2
ClusterScore_TagInNameTwo(cluster, tags, content) ==
    LET content_words == SeqRange(Split(Lower(content)))
        tag_set == {Lower(t) : t \in tags}
        cluster_name_words == SeqRange(Split(ReplaceDash(Lower(cluster.name))))
        cluster_desc_words == SeqRange(Split(Lower(cluster.description)))
    IN Cardinality(tag_set \cap cluster_name_words) * 2
         + Cardinality(tag_set \cap cluster_desc_words) * 2
         + Cardinality(content_words \cap cluster_name_words) * 2
         + Cardinality(content_words \cap cluster_desc_words)

\* the score auto_cluster_memory gives one cluster
ClusterScore(cluster, tags, content) ==
    LET content_words == Words(content)
        tag_set == {Lower(t) : t \in tags}
        cluster_name_words == SeqRange(Split(ReplaceDash(Lower(cluster.name))))
        cluster_desc_words == Words(cluster.description)
    IN Cardinality(tag_set \cap cluster_name_words) * 3
         + Cardinality(tag_set \cap cluster_desc_words) * 2
         + Cardinality(content_words \cap cluster_name_words) * 2
         + Cardinality(content_words \cap cluster_desc_words)

\* the key of the cluster auto_cluster_memory attaches to, NoParent when it
\* attaches to none
BestCluster(clusters, tags, content) ==
    LET scores == SelectSeq(Positions(clusters),
                     LAMBDA i : ClusterScore(clusters[i], tags, content) > 0)
        order == StableDesc([c \in 1..Len(scores) |->
                     Frac(ClusterScore(clusters[scores[c]], tags, content),
                          1)])
    IN IF scores = <<>> THEN NoParent
       ELSE LET best == clusters[scores[order[1]]] IN
            IF ClusterScore(best, tags, content) >= 3 THEN best.key
            ELSE NoParent

AutoClusterMemory(memory_id, tags, content) ==
    /\ Called
    /\ LET best_tid == BestCluster(index["task_clusters"], tags, content) IN
        IF best_tid = NoParent
        THEN UNCHANGED <<index, saved>>
        ELSE SaveIndex(Attached(index, memory_id, best_tid, now))
    /\ ret' = Ret("auto_cluster_memory", memory_id, 0, "ok",
                  <<tags, content>>)
    /\ UNCHANGED <<now, hseed, ioVars>>

-----------------------------------------------------------------------------
(* SpecOps: one process working on its Index, every save succeeding *)

\* greatest top_k asked for
MaxTopK == 2

TopKs == 0..MaxTopK

Queries == {<<>>, TextA}

Notes == {TextA, TextB}

\* SpecOps leaves the files and the processes of SpecIO alone
IoIdle ==
    /\ fs = [q \in Paths |-> Absent]
    /\ written = {}
    /\ pc = [p \in Procs |-> "idle"]
    /\ mem = [p \in Procs |-> NoData]
    /\ opsDone = [p \in Procs |-> 0]
    /\ failed = [p \in Procs |-> FALSE]
    /\ lastRename = 0
    /\ loadOut = [p \in Procs |-> "none"]

InitOps ==
    /\ index = EmptyIndex
    /\ saved = EmptyIndex
    /\ now = 0
    /\ hseed \in {0, 1}
    /\ ret = Ret("init", <<>>, 0, "ok", <<>>)
    /\ calls = 0
    /\ budget = MaxCalls
    /\ IoIdle

MemoryIds == IdsOf(index) \cup {NoSuchId}

TaskIds == Keys(index["task_clusters"]) \cup {NoSuchId}

NextOps ==
    \/ \E t \in Names, u \in SecondTexts : AddSolution(t, u)
    \/ AddError(TextA, TextB)
    \/ AddAntipattern(TextA, TextB)
    \/ AddGitConvention(TextA, TextB)
    \/ AddTestingPattern(TextA, TextB)
    \/ AddApiNote(TextA, TextB)
    \/ AddPreference(TextA, TextB)
    \/ \E n \in Names, t \in Notes : AddDependency(n, t)
    \/ \E t \in Notes : AddEnvironment(TextA, t)
    \/ AddPinnedMemory(TextA, TextB)
    \/ Tick
    \/ \E id \in IdArgs(index) : ArchiveMemory(id)
    \/ \E id \in IdArgs(index) : UnarchiveMemory(id)
    \/ \E id \in IdArgs(index) : RefineMemory(id, TextAB)
    \/ \E id \in IdArgs(index) : UnpinMemory(id)
    \/ \E q \in Queries, k \in TopKs : SearchSolutions(q, k)
    \/ \E q \in Queries, k \in TopKs : SearchErrors(q, k)
    \/ \E q \in Queries, k \in TopKs : SearchAntipatterns(q, k)
    \/ \E q \in Queries, k \in TopKs : SearchGitConventions(q, k)
    \/ \E q \in Queries, k \in TopKs : SearchTestingPatterns(q, k)
    \/ \E q \in Queries, k \in TopKs : SearchApiNotes(q, k)
    \/ \E t \in {NoParent} \cup Keys(index["task_clusters"]) :
          CreateTaskCluster(TextA, TextB, t)
    \/ \E id \in MemoryIds, t \in TaskIds : AttachMemoryToTask(id, t)
    \/ \E id \in MemoryIds : ReferenceMemory(id)
    \/ \E t \in TaskIds : GetTaskMemories(t)
    \/ \E f \in {DefaultDecayFactor, MassFloor} :
          ApplyStalenessDecay(DefaultDecayDays, f)
    \/ \E k \in TopKs : GetHighGravityMemories(k)
    \/ \E id \in MemoryIds, tags \in {{}, {TextA}} :
          AutoClusterMemory(id, tags, TextA)

SpecOps == InitOps /\ [][NextOps]_vars

-----------------------------------------------------------------------------
(* SpecSearch: solutions added and searched by one process and by the       *)
(* processes started after it on the same storage root                      *)

\* operations called in a run of SpecSearch
MaxSearchCalls == 3

\* the process exits and the next one starts: it loads the Index last saved
\* and draws its own salt for str hashes
Restart ==
    /\ index' = saved
    /\ hseed' \in {0, 1}
    /\ ret' = Ret("restart", <<>>, 0, "ok", <<>>)
    /\ UNCHANGED <<saved, now, calls, budget, ioVars>>

SearchTexts == {TextA, TextAB}

\* the text add_solution embeds
SalientText(problem, solution) == problem \o Sp \o solution

SearchQueries ==
    SearchTexts
      \cup {SalientText(t, u) : t \in SearchTexts, u \in SecondTexts}

InitSearch ==
    /\ index = EmptyIndex
    /\ saved = EmptyIndex
    /\ now = 0
    /\ hseed \in {0, 1}
    /\ ret = Ret("init", <<>>, 0, "ok", <<>>)
    /\ calls = 0
    /\ budget = MaxSearchCalls
    /\ IoIdle

NextSearch ==
    \/ \E t \in SearchTexts, u \in SecondTexts : AddSolution(t, u)
    \/ \E q \in SearchQueries, k \in 1..MaxTopK : SearchSolutions(q, k)
    \/ Restart
    \/ Tick

SpecSearch == InitSearch /\ [][NextSearch]_vars

-----------------------------------------------------------------------------
(* SpecGravity: task clusters and memory gravity, with the feedback command *)

\* operations called in a run of SpecGravity
MaxGravityCalls == 4

\* the "feedback" command of the CLI: a process of its own, which loads the
\* saved Index, adjusts one mass and saves
Feedback(memory_id, useful) ==
    /\ Called
    /\ LET g0 == saved["memory_gravity"]
           g1 == IF KeyPos(g0, memory_id) = 0
                 THEN Append(g0, NewGravity(memory_id, now)) ELSE g0
           m == KeyPos(g1, memory_id)
       IN /\ useful => g1[m].references < MaxRefs
          /\ SaveIndex([saved EXCEPT !["memory_gravity"] =
                IF useful
                THEN [g1 EXCEPT ![m].mass = FAdd(@, Two),
                                ![m].references = @ + 1]
                ELSE [g1 EXCEPT ![m].mass =
                         FMax(MassFloor, FAdd(@, Frac(0 - 1, 1)))]])
    /\ ret' = Ret("feedback", memory_id, 0, "ok", <<>>)
    /\ UNCHANGED <<now, hseed, ioVars>>

\* decay factors tried: the default, one that reaches the floor at once,
\* zero and a negative one
DecayFactors == {DefaultDecayFactor, MassFloor, Frac(0, 1), Frac(0 - 1, 1)}

\* decay_days tried: every tracked memory is stale, or those a tick old
DecayDays == {0, DefaultDecayDays}

InitGravity ==
    /\ index = EmptyIndex
    /\ saved = EmptyIndex
    /\ now = 0
    /\ hseed = 0
    /\ ret = Ret("init", <<>>, 0, "ok", <<>>)
    /\ calls = 0
    /\ budget = MaxGravityCalls
    /\ IoIdle

NextGravity ==
    \/ AddSolution(TextA, TextB)
    \/ AddGitConvention(TextA, TextB)
    \/ CreateTaskCluster(TextA, TextB, NoParent)
    \/ \E id \in MemoryIds, t \in TaskIds : AttachMemoryToTask(id, t)
    \/ \E id \in MemoryIds : ReferenceMemory(id)
    \/ \E id \in MemoryIds, u \in BOOLEAN : Feedback(id, u)
    \/ \E d \in DecayDays, f \in DecayFactors : ApplyStalenessDecay(d, f)
    \/ \E t \in TaskIds : GetTaskMemories(t)
    \/ \E k \in TopKs : GetHighGravityMemories(k)
    \/ \E id \in IdsOf(index) : ArchiveMemory(id)
    \/ Tick

SpecGravity == InitGravity /\ [][NextGravity]_vars

-----------------------------------------------------------------------------
(* Claims about persistence *)

\* the target holds no file or one complete document that one save wrote
TargetIntact ==
    /\ fs["index"].st \in {"absent", "object"}
    /\ fs["index"].st = "object" => fs["index"].data \in written

\* a crash after the temp file was created and before the rename completed
\* leaves the target as it was
CrashKeepsTarget ==
    [][\A p \in Procs :
          (pc[p] \in {"dump", "validate", "rename"} /\ pc'[p] = "crashed")
              => fs'["index"] = fs["index"]]_ioVars

\* every load reads a target that is absent or complete, and returns it
LoadReadsWhole ==
    [][\A p \in Procs :
          (pc[p] = "start" /\ pc'[p] # "start")
              => /\ fs["index"].st \in {"absent", "object"}
                 /\ loadOut'[p] = "ok"
                 /\ fs["index"].st = "object"
                       => \A k \in DOMAIN fs["index"].data :
                             mem'[p][k] = fs["index"].data[k]]_ioVars

\* C1: at every point of every interleaving of saves and loads of separate
\* processes, and after a crash at any step of a save, the target path holds
\* no file or one complete document written by a single save; a load never
\* reads a partial or mixed document; a crash between the temp write and the
\* rename leaves the target unchanged.
C1_AtomicTarget == []TargetIntact /\ CrashKeepsTarget /\ LoadReadsWhole

\* a process crashed holding a complete temp file that never reached the
\* target, while another process's save has replaced the target
C1_Witness ==
    \E p \in Procs, q \in Procs :
        /\ p # q
        /\ pc[p] = "crashed"
        /\ fs[TmpPath(p)].st = "object"
        /\ lastRename = q
        /\ fs["index"].st = "object"
        /\ fs["index"] # fs[TmpPath(p)]

\* C2: when two processes that loaded the Index save, the target equals the
\* in-memory Index of the process whose rename completed last; nothing of
\* the other process's Index is merged in.
C2_LastWriterWins ==
    \A p \in Procs :
        (lastRename = p /\ pc[p] = "idle") => fs["index"] = Obj(mem[p])

\* both processes completed a save, process 1 renamed last, and a record
\* process 2 saved is absent from the target
C2_Witness ==
    /\ lastRename = 1
    /\ pc[1] = "idle"
    /\ pc[2] = "idle"
    /\ opsDone[2] > 0
    /\ fs["index"].st = "object"
    /\ \E x \in mem[2]["solutions"] : x \notin fs["index"].data["solutions"]

\* the target changes only by the rename of a temp file that parsed
ReplacedOnlyByValidated ==
    [][fs'["index"] # fs["index"]
          => \E p \in Procs :
                /\ pc[p] = "rename"
                /\ ~failed[p]
                /\ JsonParses(fs[TmpPath(p)])
                /\ fs'["index"] = fs[TmpPath(p)]
                /\ fs'[TmpPath(p)] = Absent]_ioVars

\* once a step of a save has failed, the save never reaches the rename; it
\* removes its temp file and raises
FailedSaveRaises ==
    \A p \in Procs :
        failed[p] =>
            /\ pc[p] \in {"cleanup", "raised", "crashed"}
            /\ pc[p] = "raised" => fs[TmpPath(p)] = Absent

ChosenBackup(f) ==
    IF JsonParses(f["bak"]) THEN f["bak"]
    ELSE IF JsonParses(f["bak2"]) THEN f["bak2"]
    ELSE Absent

\* C3: when the target exists and does not parse, load returns the content
\* of the first backup that parses (.bak, then .bak2), else the default
\* schema; the result holds every default key, the backup's keys keep the
\* backup's values, and the target is moved to the quarantine path.
C3_RecoveryChain ==
    [][\A p \in Procs :
          (pc[p] = "start" /\ pc'[p] # "start"
              /\ Exists(fs["index"]) /\ ~JsonParses(fs["index"]))
          => LET b == ChosenBackup(fs) IN
                /\ loadOut'[p] = "ok"
                /\ DOMAIN mem'[p] = DefaultKeys \cup DOMAIN b.data
                /\ \A k \in DOMAIN b.data : mem'[p][k] = b.data[k]
                /\ \A k \in DefaultKeys \ DOMAIN b.data : mem'[p][k] = {}
                /\ fs'["corrupted"] = fs["index"]
                /\ fs'["index"] = Absent]_ioVars

\* C4: load never raises: whatever the target and the two backups hold
\* (absent, unparsable, or any parseable JSON value), load returns an Index.
C4_LoadNeverRaises ==
    \A p \in Procs : pc[p] # "start" => loadOut[p] = "ok"

-----------------------------------------------------------------------------
(* Claims about the typed memory store *)

\* a step in which the process calls the operation op
Calls(op) == calls' # calls /\ ret'.op = op

\* the record at every position of every list is still at that position:
\* the same id, created at the same time
ListsKept ==
    \A k \in RecordKinds :
        /\ Len(index'[k]) >= Len(index[k])
        /\ \A i \in 1..Len(index[k]) :
              /\ Get(index'[k][i], "id", <<>>) = Get(index[k][i], "id", <<>>)
              /\ index'[k][i]["timestamp"] = index[k][i]["timestamp"]

\* every dependency and environment note is still there as it was added
MapsKept ==
    \A k \in MapKinds :
        \A n \in DOMAIN index[k] :
            n \in DOMAIN index'[k] /\ index'[k][n] = index[k][n]

\* every name of a dependency or environment note is still a name, and the
\* record under it is the one added, or the one a later add under the same
\* name put in its place
MapsKeptOrReplaced ==
    /\ \A n \in DOMAIN index["dependencies"] :
          /\ n \in DOMAIN index'["dependencies"]
          /\ index'["dependencies"][n] # index["dependencies"][n]
                => Calls("add_dependency")
    /\ \A n \in DOMAIN index["environment"] :
          /\ n \in DOMAIN index'["environment"]
          /\ index'["environment"][n] # index["environment"][n]
                => Calls("add_environment")

\* unpin removes the pinned records whose id equals its argument, keeps the
\* others in their order, and removes nothing else
UnpinExact ==
    /\ index'["pinned"] =
          SelectSeq(index["pinned"],
                    LAMBDA p : Get(p, "id", <<>>) # ret'.arg)
    /\ \A k \in RecordKinds \ {"pinned"} : index'[k] = index[k]
    /\ \A k \in MapKinds : index'[k] = index[k]

C7_PinnedUntouched ==
    [][(Calls("archive_memory") \/ Calls("unarchive_memory")
          \/ Calls("refine_memory"))
       => index'["pinned"] = index["pinned"]]_vars

\* archive was given an id that a pinned record and a solution share, and
\* archived the solution
C7_Witness ==
    /\ ret.op = "archive_memory"
    /\ ret.out = "true"
    /\ \E i \in 1..Len(index["pinned"]) :
          /\ index["pinned"][i]["id"] = ret.arg
          /\ ~Has(index["pinned"][i], "archived")
    /\ \E j \in 1..Len(index["solutions"]) :
          /\ index["solutions"][j]["id"] = ret.arg
          /\ Get(index["solutions"][j], "archived", FALSE)

\* the operations that look a record or a task up by id
LookupOps ==
    {"archive_memory", "unarchive_memory", "refine_memory", "unpin_memory",
     "get_task_memories"}

\* C8: archive, unarchive, refine, unpin and task_memories called with an
\* id that matches no record return false or an empty list, do not raise
\* and do not change the Index, whatever records the Index holds.
C8_MissReturnsFalse ==
    [][(calls' # calls /\ ret'.op \in LookupOps /\ ret'.arg = NoSuchId)
       => /\ ret'.out \in {"false", "ok"}
          /\ ret'.list = <<>>
          /\ index' = index]_vars

\* C9: no search of any kind returns a record whose archived flag is set.
C9_SearchSkipsArchived ==
    ret.op \in DOMAIN SearchedKind
        => \A q \in 1..Len(ret.list) :
              ~Get(index[SearchedKind[ret.op]][ret.list[q]], "archived", FALSE)

\* the similarity of the query of the last search to the record at a
\* position of the searched list
SimTo(i) ==
    CosineSq(SimpleEmbedding(hseed, ret.arg),
             index[SearchedKind[ret.op]][i]["embedding"])

\* C10: for top_k >= 0 a search returns exactly min(top_k, n) records, n
\* the number of records of the kind that are not archived, in
\* non-increasing order of similarity, records of equal similarity in their
\* order of insertion.
C10_SearchRanked ==
    (ret.op \in DOMAIN SearchedKind /\ ret.k >= 0)
        => LET list == index[SearchedKind[ret.op]]
               n == Cardinality({i \in 1..Len(list) :
                                    ~Get(list[i], "archived", FALSE)})
           IN /\ Len(ret.list) = Min(ret.k, n)
              /\ \A q \in 1..Len(ret.list) - 1 :
                    /\ ~FracLess(SimTo(ret.list[q]), SimTo(ret.list[q + 1]))
                    /\ FracEq(SimTo(ret.list[q]), SimTo(ret.list[q + 1]))
                          => ret.list[q] < ret.list[q + 1]

-----------------------------------------------------------------------------
(* Claims about similarity search *)

\* the query of the last search is the record's own text: its problem, or
\* the text its embedding was computed over
OwnText(r) ==
    ret.arg = r["problem"] \/ ret.arg = SalientText(r["problem"], r["solution"])

\* C11: a search with the salient text of an added record R and top_k >= 1
\* returns R first, whatever other records of the kind with a different
\* text there are.
C11_SelfFirst ==
    (ret.op = "search_solutions" /\ ret.k >= 1)
        => \A i \in 1..Len(index["solutions"]) :
              LET r == index["solutions"][i] IN
              (/\ OwnText(r)
               /\ \A j \in 1..Len(index["solutions"]) :
                     j # i => /\ index["solutions"][j]["problem"] # r["problem"]
                              /\ SalientText(index["solutions"][j]["problem"],
                                             index["solutions"][j]["solution"])
                                   # SalientText(r["problem"], r["solution"]))
                  => /\ ret.list # <<>>
                     /\ ret.list[1] = i

\* C12: embed is the same function in every process: the embedding a
\* process stored for a text and the embedding a later process computes for
\* the same text have similarity 1.
C12_EmbedDeterministic ==
    \A i \in 1..Len(index["solutions"]) :
        LET r == index["solutions"][i] IN
        FracEq(CosineSq(SimpleEmbedding(hseed,
                            SalientText(r["problem"], r["solution"])),
                        r["embedding"]),
               [num |-> 1, den |-> 1])

-----------------------------------------------------------------------------
(* Claims about memory gravity *)

\* C13: every entry of the gravity map has a mass of at least 0.1, after
\* any sequence of reference, attach, feedback and decay calls, decay
\* repeated and with any factor.
C13_MassFloor ==
    \A m \in 1..Len(index["memory_gravity"]) :
        ~FLess(index["memory_gravity"][m].mass, MassFloor)

\* a decay with a factor of zero or below has brought a mass to the floor
C13_Witness ==
    /\ ret.op = "apply_staleness_decay"
    /\ \E m \in 1..Len(index["memory_gravity"]) :
          /\ index["memory_gravity"][m].mass = MassFloor
          /\ index["memory_gravity"][m].references > 0

\* the tasks a memory id has been attached to, by its gravity entry
TasksOf(ix, mid) ==
    LET m == KeyPos(ix["memory_gravity"], mid) IN
    IF m = 0 THEN {} ELSE SeqRange(ix["memory_gravity"][m].tasks)

\* C14: the first attach of a memory to an existing task adds the memory to
\* the task's members (task mass +1) and the task to the memory's tasks
\* (memory mass +1); a further attach of the same pair leaves both masses
\* and both sets unchanged; attach to a task that does not exist changes
\* nothing and creates no gravity entry.
C14_AttachIdempotent ==
    [][Calls("attach_memory_to_task")
       => LET mid == ret'.arg[1]
              tid == ret'.arg[2]
              t == KeyPos(index["task_clusters"], tid)
              old == index["task_clusters"][t]
              new == index'["task_clusters"][t]
          IN IF t = 0 THEN index' = index
             ELSE IF tid \in TasksOf(index, mid)
             THEN /\ new.mass = old.mass
                  /\ new.memories = old.memories
                  /\ MassOf(index', mid) = MassOf(index, mid)
                  /\ TasksOf(index', mid) = TasksOf(index, mid)
             ELSE /\ new.mass = old.mass + 1
                  /\ new.memories = Append(old.memories, mid)
                  /\ MassOf(index', mid) = FAdd(MassOf(index, mid), One)
                  /\ TasksOf(index', mid) = TasksOf(index, mid) \cup {tid}]_vars

\* the record with this id, of whatever kind, carries the annotation of a
\* gravity mass of at least 2
AnnotatedTwo(ix, mid) ==
    \E k \in RecordKinds : \E i \in 1..Len(ix[k]) :
        /\ Get(ix[k][i], "id", <<>>) = mid
        /\ Has(ix[k][i], "_gravity_mass")
        /\ ~FLess(ix[k][i]["_gravity_mass"], Two)

\* C15: once a record of any kind, with no gravity state before, has been
\* attached to a task that create_task returned, task_memories of that task
\* includes the record, annotated with a mass of at least 2.
C15_AttachedIsListed ==
    [][Calls("get_task_memories")
       => LET t == KeyPos(index["task_clusters"], ret'.arg) IN
          t # 0 =>
            \A mid \in IdsOf(index) :
                (/\ mid \in SeqRange(index["task_clusters"][t].memories)
                 /\ ~FLess(MassOf(index, mid), Two))
                => /\ mid \in SeqRange(ret'.list)
                   /\ AnnotatedTwo(index', mid)]_vars

\* what the last call of apply_staleness_decay did to the gravity map, the
\* memories in stale having been decayed and no other
DecayStep(stale) ==
    LET old == index["memory_gravity"]
        new == index'["memory_gravity"]
    IN /\ Len(new) = Len(old)
       /\ \A m \in 1..Len(old) :
             /\ new[m].mass =
                   IF m \in stale
                   THEN FMax(MassFloor, FMul(old[m].mass, ret'.arg))
                   ELSE old[m].mass
             /\ new[m].key = old[m].key
             /\ new[m].last_accessed = old[m].last_accessed
             /\ new[m].references = old[m].references
             /\ new[m].tasks = old[m].tasks

\* C16 as stated: decay replaces the mass by max(0.1, mass * factor) for
\* exactly the tracked memories whose last-accessed age exceeds
\* stale_after_days, and changes nothing else of the gravity map.
C16_DecayIfOlder ==
    [][Calls("apply_staleness_decay")
       => DecayStep({m \in 1..Len(index["memory_gravity"]) :
             (now - index["memory_gravity"][m].last_accessed) * DaysPerTick
                > ret'.k})]_vars

\* C16: decay replaces the mass by max(0.1, mass * factor) for exactly the
\* tracked memories whose last-accessed age in whole days is at least
\* stale_after_days and leaves every other mass unchanged; it never changes
\* last-accessed, reference count or attached tasks, so a second call
\* without the clock advancing applies the factor again.
C16_DecayIfAtLeast ==
    [][Calls("apply_staleness_decay")
       => DecayStep({m \in 1..Len(index["memory_gravity"]) :
             (now - index["memory_gravity"][m].last_accessed) * DaysPerTick
                >= ret'.k})]_vars

\* a memory referenced once (mass 3/2) has been decayed twice by 0.9
C16_Witness ==
    /\ ret.op = "apply_staleness_decay"
    /\ ret.arg = DefaultDecayFactor
    /\ \E m \in 1..Len(index["memory_gravity"]) :
          /\ index["memory_gravity"][m].mass = Frac(243, 200)
          /\ index["memory_gravity"][m].references = 1

\* some record of some kind has this id and is not archived
LiveRecord(ix, mid) ==
    \E k \in RecordKinds : \E i \in 1..Len(ix[k]) :
        /\ Get(ix[k][i], "id", <<>>) = mid
        /\ ~Get(ix[k][i], "archived", FALSE)

\* C17: top_by_gravity(k), k >= 0, returns exactly min(k, n) memories, n
\* the number of gravity-tracked records of any kind that are not archived,
\* in non-increasing order of gravity mass, none of them archived.
C17_TopByGravity ==
    (ret.op = "get_high_gravity_memories" /\ ret.k >= 0)
        => LET gravity == index["memory_gravity"]
               n == Cardinality({m \in 1..Len(gravity) :
                                    LiveRecord(index, gravity[m].key)})
           IN /\ Len(ret.list) = Min(ret.k, n)
              /\ \A q \in 1..Len(ret.list) : LiveRecord(index, ret.list[q])
              /\ \A q \in 1..Len(ret.list) - 1 :
                    ~FLess(MassOf(index, ret.list[q]),
                           MassOf(index, ret.list[q + 1]))

\* two fractions of the same value
SameMass(a, b) == ~FLess(a, b) /\ ~FLess(b, a)

\* C18: archive(id) on a matching record sets its archived flag and halves
\* the mass held in that memory's gravity state, floored at 0.1;
\* unarchive(id) on a matching archived record clears the flag and doubles
\* that mass.
C18_ArchiveHalvesGravity ==
    [][/\ (Calls("archive_memory") /\ ret'.out = "true"
              /\ KeyPos(index["memory_gravity"], ret'.arg) # 0)
          => /\ \E k \in RecordKinds : \E i \in 1..Len(index'[k]) :
                   /\ Get(index'[k][i], "id", <<>>) = ret'.arg
                   /\ Get(index'[k][i], "archived", FALSE)
             /\ SameMass(MassOf(index', ret'.arg),
                         FMax(MassFloor, FMul(MassOf(index, ret'.arg), Half)))
       /\ (Calls("unarchive_memory") /\ ret'.out = "true"
              /\ KeyPos(index["memory_gravity"], ret'.arg) # 0)
          => SameMass(MassOf(index', ret'.arg),
                      FMul(MassOf(index, ret'.arg), Two))]_vars

\* the content fields the specification lists for a kind
ContentFields(k) ==
    IF k = "solutions" THEN {"problem", "solution"}
    ELSE IF k = "errors" THEN {"error_message", "resolution"}
    ELSE {"pattern"}

\* C19: refine(id, text) on a match changes exactly one record: every
\* content field listed for its kind becomes the new text, refined is set
\* with a timestamp, and the record's id, the number of records of every
\* kind and every other record stay as they were.
C19_RefineAllFields ==
    [][(Calls("refine_memory") /\ ret'.out = "true")
          => /\ \A k \in RecordKinds : Len(index'[k]) = Len(index[k])
             /\ \E k \in {"solutions", "errors", "antipatterns"} :
                \E i \in 1..Len(index[k]) :
                   /\ StartsWith(Get(index[k][i], "id", <<>>), ret'.arg)
                   /\ Get(index'[k][i], "id", <<>>)
                         = Get(index[k][i], "id", <<>>)
                   /\ \A f \in ContentFields(k) :
                         Get(index'[k][i], f, <<>>) = ret'.list[1]
                   /\ Get(index'[k][i], "refined", FALSE)
                   /\ Has(index'[k][i], "refined_at")
                   /\ \A k2 \in RecordKinds : \A i2 \in 1..Len(index[k2]) :
                         (k2 # k \/ i2 # i)
                            => index'[k2][i2] = index[k2][i2]]_vars

\* C20: in every reachable state, within each kind no two records have
\* the same id, whatever adds were made, repeated adds of identical content
\* included.
C20_UniqueIds ==
    \A k \in RecordKinds : \A i, j \in 1..Len(index[k]) :
        (i # j /\ Has(index[k][i], "id") /\ Has(index[k][j], "id"))
            => index[k][i]["id"] # index[k][j]["id"]

-----------------------------------------------------------------------------
(* SpecCluster: task clusters created and memories attached to them by     *)
(* hand and by auto_cluster_memory                                         *)

\* operations called in a run of SpecCluster
MaxClusterCalls == 4

\* "a-b"
DashAB == <<"a", "-", "b">>

\* "A"
UpperA == <<"A">>

ClusterNames == {TextA, DashAB}

ClusterDescs == {<<>>, TextB}

TagSets == {{}, {UpperA}, {TextB}}

Contents == {<<>>, TextAB}

InitCluster ==
    /\ index = EmptyIndex
    /\ saved = EmptyIndex
    /\ now = 0
    /\ hseed = 0
    /\ ret = Ret("init", <<>>, 0, "ok", <<>>)
    /\ calls = 0
    /\ budget = MaxClusterCalls
    /\ IoIdle

NextCluster ==
    \/ AddSolution(TextA, TextB)
    \/ \E n \in ClusterNames, d \in ClusterDescs :
          CreateTaskCluster(n, d, NoParent)
    \/ \E id \in MemoryIds, t \in TaskIds : AttachMemoryToTask(id, t)
    \/ \E id \in MemoryIds, tags \in TagSets, content \in Contents :
          AutoClusterMemory(id, tags, content)
    \/ Tick

SpecCluster == InitCluster /\ [][NextCluster]_vars

-----------------------------------------------------------------------------
(* SpecPin: texts offered to auto_pin_if_needed, pins added and removed by  *)
(* hand                                                                     *)

\* operations called in a run of SpecPin
MaxPinCalls == 4

\* a URI; a URI with a control character in it; no URI; a URI after a word;
\* a scheme with nothing after it
PinTexts ==
    {<<"a", "b">>, <<"a", Ctl, "b">>, TextB, <<"b", Space, "A", "b">>,
     <<"a", Space, "b">>}

InitPin ==
    /\ index = EmptyIndex
    /\ saved = EmptyIndex
    /\ now = 0
    /\ hseed = 0
    /\ ret = Ret("init", <<>>, 0, "ok", <<>>)
    /\ calls = 0
    /\ budget = MaxPinCalls
    /\ IoIdle

NextPin ==
    \/ \E t \in PinTexts : AutoPinIfNeeded(t, TextA)
    \/ AddPinnedMemory(TextA, TextB)
    \/ \E id \in IdsOf(index) : UnpinMemory(id)
    \/ Tick

SpecPin == InitPin /\ [][NextPin]_vars

-----------------------------------------------------------------------------
(* Claims about backups, quarantine and repeated loads *)

\* C21: after every successful save of a single process made while the
\* target exists, .bak equals the target's content immediately before the
\* save and .bak2 equals .bak's content immediately before the save: the
\* rotation promotes .bak to .bak2, the copy puts the target into .bak, and
\* nothing else in the save touches either backup.
C21_BackupGenerations ==
    [][\A p \in Procs :
          (\A q \in Procs \ {p} : pc'[q] = "start")
             => /\ (pc[p] = "rotate" /\ pc'[p] = "copy")
                    => fs'["bak2"] = fs["bak"]
                /\ (pc[p] = "copy" /\ pc'[p] = "mkstemp")
                    => /\ fs'["bak"] = fs["index"]
                       /\ fs'["bak2"] = fs["bak2"]
                /\ (/\ pc[p] \in {"mkstemp", "dump", "validate", "rename"}
                    /\ pc'[p] \in {"dump", "validate", "rename", "idle"})
                    => /\ fs'["bak"] = fs["bak"]
                       /\ fs'["bak2"] = fs["bak2"]]_vars

\* C22: a load writes the quarantine file only on an unrecoverable parse
\* failure: the target exists and does not parse, and neither backup
\* parses; a load that recovers from a backup creates no quarantine file.
C22_QuarantineOnlyUnrecoverable ==
    [][\A p \in Procs :
          (pc[p] = "start" /\ pc'[p] # "start"
              /\ fs'["corrupted"] # fs["corrupted"])
          => /\ Exists(fs["index"])
             /\ ~JsonParses(fs["index"])
             /\ ~JsonParses(fs["bak"])
             /\ ~JsonParses(fs["bak2"])]_vars

\* C27: load is repeatable: whatever the target and the backups hold, two
\* consecutive loads with no save in between return the same Index; what
\* one load recovered from a backup, the next load returns too.
C27_LoadRepeatable ==
    (loadOut[1] = "ok" /\ loadOut[2] = "ok") => mem[1] = mem[2]

-----------------------------------------------------------------------------
(* Claims about pinned records, clustering, refinement and integrity *)

\* C23: pinned memories are exempt from decay: a decay, called directly or
\* by top_by_gravity, never lowers the gravity mass tracked for the id of a
\* pinned record, and leaves the pinned records as they are.
C23_PinnedExemptFromDecay ==
    [][(Calls("apply_staleness_decay") \/ Calls("get_high_gravity_memories"))
          => /\ index'["pinned"] = index["pinned"]
             /\ \A i \in 1..Len(index["pinned"]) :
                   LET mid == Get(index["pinned"][i], "id", <<>>) IN
                   KeyPos(index["memory_gravity"], mid) # 0
                      => ~FLess(MassOf(index', mid), MassOf(index, mid))]_vars

\* the words of a cluster's name, dashes read as spaces
NameWords(c) == Words(ReplaceDash(c.name))

\* the score of the claim: 3 for a tag in the name, 2 for a tag in the
\* description, 2 for a content word in the name, 1 for a content word in
\* the description
WeightedScore(c, tags, content) ==
    LET tg == {Lower(t) : t \in tags} IN
    3 * Cardinality(tg \cap NameWords(c))
      + 2 * Cardinality(tg \cap Words(c.description))
      + 2 * Cardinality(Words(content) \cap NameWords(c))
      + Cardinality(Words(content) \cap Words(c.description))

\* the earliest-created cluster among those of the greatest score, 0 when
\* there is no cluster
TopCluster(cl, tags, content) ==
    IF Len(cl) = 0 THEN 0
    ELSE CHOOSE i \in 1..Len(cl) :
            /\ \A j \in 1..Len(cl) :
                  WeightedScore(cl[j], tags, content)
                     <= WeightedScore(cl[i], tags, content)
            /\ \A j \in 1..(i - 1) :
                  WeightedScore(cl[j], tags, content)
                     < WeightedScore(cl[i], tags, content)

\* C24: auto_attach(memory_id, tags, content) attaches the memory to exactly
\* one cluster, the earliest-created among those of the greatest weighted
\* score, if and only if that score is at least 3; otherwise no cluster and
\* no gravity state changes.
C24_AutoAttachBest ==
    [][Calls("auto_cluster_memory")
          => LET cl == index["task_clusters"]
                 mid == ret'.arg
                 tags == ret'.list[1]
                 content == ret'.list[2]
                 best == TopCluster(cl, tags, content)
                 g == KeyPos(index'["memory_gravity"], mid)
             IN IF best # 0 /\ WeightedScore(cl[best], tags, content) >= 3
                THEN /\ Len(index'["task_clusters"]) = Len(cl)
                     /\ \A i \in 1..Len(cl) :
                           i # best => index'["task_clusters"][i] = cl[i]
                     /\ mid \in SeqRange(index'["task_clusters"][best].memories)
                     /\ g # 0
                     /\ cl[best].key
                           \in SeqRange(index'["memory_gravity"][g].tasks)
                     /\ \A t \in SeqRange(index'["memory_gravity"][g].tasks) :
                           t = cl[best].key
                              \/ t \in TasksOf(index, mid)
                ELSE /\ index'["task_clusters"] = cl
                     /\ index'["memory_gravity"] = index["memory_gravity"]]_vars

\* two clusters tie at a score of 3 or more and the memory went to the
\* first of them only
C24_Witness ==
    /\ ret.op = "auto_cluster_memory"
    /\ Len(index["task_clusters"]) = 2
    /\ LET cl == index["task_clusters"]
           s1 == WeightedScore(cl[1], ret.list[1], ret.list[2])
           s2 == WeightedScore(cl[2], ret.list[1], ret.list[2])
       IN /\ s1 = s2
          /\ s1 >= 3
          /\ ret.arg \in SeqRange(cl[1].memories)
          /\ ret.arg \notin SeqRange(cl[2].memories)

\* the text an add of the kind embeds for a record with these fields
AddedText(k, r) ==
    IF k = "solutions" THEN r["problem"] \o Sp \o r["solution"]
    ELSE IF k = "errors" THEN r["error_message"] \o Sp \o r["resolution"]
    ELSE r["pattern"] \o Sp \o r["reason"] \o Sp \o r["alternative"]

\* C25: after refine(id, text) on a solution, an error or an antipattern the
\* record's stored embedding is the embedding of all its textual fields,
\* the value an add of a record with those fields would store, and a search
\* with the new text gives the record a similarity above zero.
C25_RefineReembeds ==
    [][(Calls("refine_memory") /\ ret'.out = "true")
          => \A k \in {"solutions", "errors", "antipatterns"} :
             \A i \in 1..Len(index[k]) :
                index'[k][i] # index[k][i]
                   => /\ index'[k][i]["embedding"]
                            = SimpleEmbedding(hseed,
                                              AddedText(k, index'[k][i]))
                      /\ CosineSq(SimpleEmbedding(hseed, ret'.list[1]),
                                  index'[k][i]["embedding"]).num > 0]_vars

\* C26: auto-pinning does not duplicate: a call of auto_pin_if_needed that
\* follows a call with the same text creates no pinned record, and a call
\* that creates none leaves the Index unchanged.
C26_AutoPinOnce ==
    [][Calls("auto_pin_if_needed")
          => /\ (ret.op = "auto_pin_if_needed" /\ ret.arg = ret'.arg)
                   => Len(index'["pinned"]) = Len(index["pinned"])
             /\ Len(index'["pinned"]) = Len(index["pinned"])
                   => index' = index]_vars

\* C28: referential integrity of the gravity data: every memory id that is
\* a key of the gravity map or a member of a task cluster is the id of a
\* record the Index holds.
C28_GravityRefersToRecords ==
    /\ \A m \in 1..Len(index["memory_gravity"]) :
          index["memory_gravity"][m].key \in IdsOf(index)
    /\ \A t \in 1..Len(index["task_clusters"]) :
          SeqRange(index["task_clusters"][t].memories) \subseteq IdsOf(index)

\* no record of the Index written by the last save carries an annotation
\* of a ranked read
NoAnnotationSaved ==
    \A k \in RecordKinds : \A i \in 1..Len(saved[k]) :
        /\ ~Has(saved[k][i], "_gravity_mass")
        /\ ~Has(saved[k][i], "_references")

\* C29: the ranked reads do not alter stored records: task_memories and
\* top_by_gravity leave every record of the Index as it was, and the mass
\* and reference-count annotations of the items they return are never
\* persisted by a later save.
C29_RankedReadsKeepRecords ==
    [][/\ (Calls("get_task_memories") \/ Calls("get_high_gravity_memories"))
             => \A k \in RecordKinds : index'[k] = index[k]
       /\ NoAnnotationSaved']_vars

\* C30: each task cluster's mass is 1 plus the number of its members, its
\* member list holds no id twice, and membership is symmetric: a memory id
\* is among a task's members exactly when the task id is among the tasks
\* of the memory's gravity state.
C30_ClusterConsistent ==
    LET cl == index["task_clusters"]
        gravity == index["memory_gravity"]
    IN /\ \A t \in 1..Len(cl) :
             /\ cl[t].mass = 1 + Len(cl[t].memories)
             /\ \A i, j \in 1..Len(cl[t].memories) :
                   i # j => cl[t].memories[i] # cl[t].memories[j]
             /\ \A mid \in SeqRange(cl[t].memories) :
                   cl[t].key \in TasksOf(index, mid)
       /\ \A m \in 1..Len(gravity) :
             \A tid \in SeqRange(gravity[m].tasks) :
                \E t \in 1..Len(cl) :
                   /\ cl[t].key = tid
                   /\ gravity[m].key \in SeqRange(cl[t].memories)

====
